---- MODULE Spec2Model ----
(***************************************************************************)
(* Action-item extractor (week2/app): the heuristic extractor, the         *)
(* LLM-backed extractor and the storage/API layer built on them.           *)
(*                                                                         *)
(* A Python str is modelled as a sequence of one-character strings, so     *)
(* that strip, lower, splitlines, the regular expressions and removeprefix *)
(* are computed character by character, as the interpreter computes them.  *)
(***************************************************************************)
EXTENDS Integers, Sequences, FiniteSets, TLC

VARIABLES
    text,        \* extract_action_items: the argument
    h_pc,        \* extract_action_items: "ready" before the call, "done" after
    h_items,     \* extract_action_items: the returned list
    llm_text,    \* extract_action_items_llm: the argument
    llm_pc,      \* extract_action_items_llm: "ready" | "done"
    chat_reply,  \* what the chat collaborator did during the call ("none": not called)
    chat_calls,  \* number of times chat() was invoked
    llm_result,  \* [raised, value]: what the call handed to its caller
    llm_log,     \* what the catch-all handler printed
    notes,       \* table notes: id -> row
    action_items,\* table action_items: id -> row
    note_seq,    \* sqlite_sequence of notes (AUTOINCREMENT high-water mark)
    item_seq,    \* sqlite_sequence of action_items
    response     \* the last HTTP response, with the request that produced it

vars == <<text, h_pc, h_items, llm_text, llm_pc, chat_reply, chat_calls,
          llm_result, llm_log, notes, action_items, note_seq, item_seq,
          response>>

h_vars == <<text, h_pc, h_items>>
llm_vars == <<llm_text, llm_pc, chat_reply, chat_calls, llm_result, llm_log>>
api_vars == <<notes, action_items, note_seq, item_seq, response>>

-----------------------------------------------------------------------------
(* Bounds of the model *)

\* fragments per input text of the heuristic extractor (structured notes)
MaxFrags == 4
\* fragments per input text of the heuristic extractor (prose)
MaxProseFrags == 4
\* members of a JSON list the model answers with
MaxListLen == 3
\* keys of a JSON object the model answers with
MaxDictKeys == 2
\* rows of the notes table
MaxNotes == 2
\* rows of the action_items table
MaxItems == 2

-----------------------------------------------------------------------------
(* Characters *)

\* the character U+2022 of BULLET_PREFIX_PATTERN
BulletChar == "U+2022"

\* str.isspace / regex \s (representatives)
Whitespace == {" ", "\n", "\r", "\t"}

\* the line boundaries of str.splitlines (representatives)
LineBreaks == {"\n", "\r"}

\* regex \d
Digits == {"0", "1", "2", "3", "4", "5", "6", "7", "8", "9"}

UpperLetters ==
    <<"A", "B", "C", "D", "E", "F", "G", "H", "I", "J", "K", "L", "M",
      "N", "O", "P", "Q", "R", "S", "T", "U", "V", "W", "X", "Y", "Z">>

LowerLetters ==
    <<"a", "b", "c", "d", "e", "f", "g", "h", "i", "j", "k", "l", "m",
      "n", "o", "p", "q", "r", "s", "t", "u", "v", "w", "x", "y", "z">>

\* the character class [A-Za-z'] of _looks_imperative
WordChars ==
    {UpperLetters[i] : i \in 1..26} \cup {LowerLetters[i] : i \in 1..26} \cup {"'"}

\* the character class [.!?] of the sentence splitter
SentenceEnd == {".", "!", "?"}

\* the character class [-*•] of BULLET_PREFIX_PATTERN
BulletMarks == {"-", "*", BulletChar}

Min(S) == CHOOSE m \in S : \A n \in S : m <= n
Max(S) == CHOOSE m \in S : \A n \in S : n <= m

\* the elements of a finite set of integers, in increasing order
Ascending(S) ==
    [n \in 1..Cardinality(S) |-> CHOOSE k \in S : Cardinality({j \in S : j < k}) = n - 1]

-----------------------------------------------------------------------------
(* Python str methods *)

lower_char(c) ==
    IF \E i \in 1..26 : UpperLetters[i] = c
    THEN LowerLetters[CHOOSE i \in 1..26 : UpperLetters[i] = c]
    ELSE c

\* str.lower
lower(s) == [i \in 1..Len(s) |-> lower_char(s[i])]

\* str.strip
strip(s) ==
    LET keep == {i \in 1..Len(s) : s[i] \notin Whitespace}
    IN  IF keep = {} THEN <<>> ELSE SubSeq(s, Min(keep), Max(keep))

\* str.startswith
startswith(s, p) == Len(s) >= Len(p) /\ SubSeq(s, 1, Len(p)) = p

\* p in s
contains(s, p) ==
    \E i \in 1..(Len(s) - Len(p) + 1) : SubSeq(s, i, i + Len(p) - 1) = p

\* str.removeprefix
removeprefix(s, p) ==
    IF startswith(s, p) THEN SubSeq(s, Len(p) + 1, Len(s)) ELSE s

\* str.splitlines: "\r\n" is one boundary, and no empty last line
RECURSIVE splitlines(_)
splitlines(s) ==
    IF s = <<>> THEN <<>>
    ELSE LET brk == {i \in 1..Len(s) : s[i] \in LineBreaks}
         IN  IF brk = {} THEN <<s>>
             ELSE LET i == Min(brk)
                      j == IF s[i] = "\r" /\ i < Len(s) /\ s[i + 1] = "\n"
                           THEN i + 1 ELSE i
                  IN  <<SubSeq(s, 1, i - 1)>> \o splitlines(SubSeq(s, j + 1, Len(s)))

\* the first index >= i of s whose character is not in Class (Len(s) + 1 if none):
\* where a greedy Class* started at i stops
SkipWhile(s, i, Class) ==
    LET stop == {j \in i..Len(s) : s[j] \notin Class}
    IN  IF stop = {} THEN Len(s) + 1 ELSE Min(stop)

-----------------------------------------------------------------------------
(* services/extract.py: the heuristic extractor *)

CheckboxEmpty == <<"[", " ", "]">>
CheckboxTodo == <<"[", "t", "o", "d", "o", "]">>

KEYWORD_PREFIXES ==
    { <<"t", "o", "d", "o", ":">>,
      <<"a", "c", "t", "i", "o", "n", ":">>,
      <<"n", "e", "x", "t", ":">> }

\* BULLET_PREFIX_PATTERN.match(s): the length of the match of
\* ^\s*([-*•]|\d+\.)\s+ at the start of s, 0 when there is none
BULLET_PREFIX_PATTERN(s) ==
    LET a == SkipWhile(s, 1, Whitespace)
        d == SkipWhile(s, a, Digits)
        b == IF a <= Len(s) /\ s[a] \in BulletMarks THEN a + 1
             ELSE IF d > a /\ d <= Len(s) /\ s[d] = "." THEN d + 1
             ELSE 0
        c == IF b = 0 THEN 0 ELSE SkipWhile(s, b, Whitespace)
    IN  IF b # 0 /\ c > b THEN c - 1 ELSE 0

\* BULLET_PREFIX_PATTERN.sub("", s): the pattern is anchored, so at most the
\* one match at the start is removed
BULLET_PREFIX_PATTERN_sub(s) ==
    SubSeq(s, BULLET_PREFIX_PATTERN(s) + 1, Len(s))

_is_action_line(line) ==
    LET stripped == lower(strip(line))
    IN  IF stripped = <<>> THEN FALSE
        ELSE IF BULLET_PREFIX_PATTERN(stripped) > 0 THEN TRUE
        ELSE IF \E prefix \in KEYWORD_PREFIXES : startswith(stripped, prefix) THEN TRUE
        ELSE IF contains(stripped, CheckboxEmpty) \/ contains(stripped, CheckboxTodo) THEN TRUE
        ELSE FALSE

\* lines 42-46: the cleaning of one action line
clean_action_line(line) ==
    LET c1 == strip(BULLET_PREFIX_PATTERN_sub(line))
        c2 == strip(removeprefix(c1, CheckboxEmpty))
        c3 == strip(removeprefix(c2, CheckboxTodo))
    IN  c3

\* extract_lines without the _is_action_line test of line 41: every non-blank
\* line is cleaned and kept
RECURSIVE extract_lines_unfiltered(_)
extract_lines_unfiltered(lines) ==
    IF lines = <<>> THEN <<>>
    ELSE LET line == strip(Head(lines))
             rest == extract_lines_unfiltered(Tail(lines))
         IN  IF line = <<>> THEN rest
             ELSE <<clean_action_line(line)>> \o rest

\* lines 37-47: the loop over the lines
RECURSIVE extract_lines(_)
extract_lines(lines) ==
    IF lines = <<>> THEN <<>>
    ELSE LET line == strip(Head(lines))
             rest == extract_lines(Tail(lines))
         IN  IF line = <<>> THEN rest
             ELSE IF _is_action_line(line) THEN <<clean_action_line(line)>> \o rest
             ELSE rest

\* re.split(r"(?<=[.!?])\s+", t)
RECURSIVE split_sentences(_)
split_sentences(t) ==
    LET cuts == {i \in 2..Len(t) : t[i] \in Whitespace /\ t[i - 1] \in SentenceEnd}
    IN  IF cuts = {} THEN <<t>>
        ELSE LET i == Min(cuts)
                 j == SkipWhile(t, i, Whitespace)
             IN  <<SubSeq(t, 1, i - 1)>> \o split_sentences(SubSeq(t, j, Len(t)))

imperative_starters ==
    { <<"a", "d", "d">>,
      <<"c", "r", "e", "a", "t", "e">>,
      <<"i", "m", "p", "l", "e", "m", "e", "n", "t">>,
      <<"f", "i", "x">>,
      <<"u", "p", "d", "a", "t", "e">>,
      <<"w", "r", "i", "t", "e">>,
      <<"c", "h", "e", "c", "k">>,
      <<"v", "e", "r", "i", "f", "y">>,
      <<"r", "e", "f", "a", "c", "t", "o", "r">>,
      <<"d", "o", "c", "u", "m", "e", "n", "t">>,
      <<"d", "e", "s", "i", "g", "n">>,
      <<"i", "n", "v", "e", "s", "t", "i", "g", "a", "t", "e">> }

\* re.findall(r"[A-Za-z']+", sentence)[0], <<>> when findall returns no word
first_word(sentence) ==
    LET at == {i \in 1..Len(sentence) : sentence[i] \in WordChars}
    IN  IF at = {} THEN <<>>
        ELSE SubSeq(sentence, Min(at), SkipWhile(sentence, Min(at), WordChars) - 1)

\* _looks_imperative without the lower() of line 89
_looks_imperative_case_sensitive(sentence) ==
    LET first == first_word(sentence)
    IN  IF first = <<>> THEN FALSE
        ELSE first \in imperative_starters

_looks_imperative(sentence) ==
    LET first == first_word(sentence)
    IN  IF first = <<>> THEN FALSE
        ELSE lower(first) \in imperative_starters

\* lines 50-56: the loop over the sentences
RECURSIVE extract_sentences(_)
extract_sentences(sentences) ==
    IF sentences = <<>> THEN <<>>
    ELSE LET s == strip(Head(sentences))
             rest == extract_sentences(Tail(sentences))
         IN  IF s = <<>> THEN rest
             ELSE IF _looks_imperative(s) THEN <<s>> \o rest
             ELSE rest

\* deduplicate with the items themselves in seen, not their lower()
RECURSIVE deduplicate_case_sensitive(_, _)
deduplicate_case_sensitive(extracted, seen) ==
    IF extracted = <<>> THEN <<>>
    ELSE LET item == Head(extracted)
         IN  IF item \in seen THEN deduplicate_case_sensitive(Tail(extracted), seen)
             ELSE <<item>> \o deduplicate_case_sensitive(Tail(extracted), seen \cup {item})

\* lines 58-65: the loop that keeps the first item of each lowered text
RECURSIVE deduplicate(_, _)
deduplicate(extracted, seen) ==
    IF extracted = <<>> THEN <<>>
    ELSE LET item == Head(extracted)
             lowered == lower(item)
         IN  IF lowered \in seen THEN deduplicate(Tail(extracted), seen)
             ELSE <<item>> \o deduplicate(Tail(extracted), seen \cup {lowered})

\* extract_action_items where the fallback of lines 48-56 runs whatever the
\* loop over the lines found
extract_action_items_always_fallback(t) ==
    LET from_lines == extract_lines(splitlines(t))
        extracted == from_lines \o extract_sentences(split_sentences(strip(t)))
    IN  deduplicate(extracted, {})

extract_action_items(t) ==
    LET from_lines == extract_lines(splitlines(t))
        extracted == IF from_lines = <<>>
                     THEN extract_sentences(split_sentences(strip(t)))
                     ELSE from_lines
    IN  deduplicate(extracted, {})

-----------------------------------------------------------------------------
(* services/extract.py: the LLM-backed extractor *)

(* A parsed JSON document (what json.loads returns) is a record [t, v]:    *)
(* None, a bool, an int, a str (a sequence of characters), a list (a       *)
(* sequence of documents) or a dict (a sequence of <<key, document>> pairs *)
(* in insertion order, the keys being strs).                               *)
JNull == [t |-> "null", v |-> <<>>]
JBool(b) == [t |-> "bool", v |-> b]
JNum(n) == [t |-> "num", v |-> n]
JStr(str) == [t |-> "str", v |-> str]
JList(l) == [t |-> "list", v |-> l]
JDict(pairs) == [t |-> "dict", v |-> pairs]

\* bool(x): Python's truth value, which "if item" and "or" test
truthy(x) ==
    CASE x.t = "null" -> FALSE
      [] x.t = "bool" -> x.v
      [] x.t = "num" -> x.v # 0
      [] OTHER -> x.v # <<>>

DigitChars == <<"0", "1", "2", "3", "4", "5", "6", "7", "8", "9">>

\* str(n) of a natural number
RECURSIVE py_str_nat(_)
py_str_nat(n) ==
    IF n < 10 THEN <<DigitChars[n + 1]>>
    ELSE py_str_nat(n \div 10) \o <<DigitChars[(n % 10) + 1]>>

\* sep.join(parts)
RECURSIVE join(_, _)
join(sep, parts) ==
    IF parts = <<>> THEN <<>>
    ELSE IF Len(parts) = 1 THEN parts[1]
    ELSE parts[1] \o sep \o join(sep, Tail(parts))

\* repr(x), which str() of a list or dict applies to the members
RECURSIVE py_repr(_)
py_repr(x) ==
    CASE x.t = "null" -> <<"N", "o", "n", "e">>
      [] x.t = "bool" -> IF x.v THEN <<"T", "r", "u", "e">>
                         ELSE <<"F", "a", "l", "s", "e">>
      [] x.t = "num" -> py_str_nat(x.v)
      [] x.t = "str" -> <<"'">> \o x.v \o <<"'">>
      [] x.t = "list" ->
            <<"[">> \o join(<<",", " ">>, [i \in 1..Len(x.v) |-> py_repr(x.v[i])]) \o <<"]">>
      [] x.t = "dict" ->
            <<"{">> \o join(<<",", " ">>,
                           [i \in 1..Len(x.v) |->
                               <<"'">> \o x.v[i][1] \o <<"'", ":", " ">> \o py_repr(x.v[i][2])])
                   \o <<"}">>

\* str(x)
py_str(x) == IF x.t = "str" THEN x.v ELSE py_repr(x)

\* the keys result.get is called with, in the order of lines 147-151
KEY_action_items == <<"a", "c", "t", "i", "o", "n", "_", "i", "t", "e", "m", "s">>
KEY_actionItems == <<"a", "c", "t", "i", "o", "n", "I", "t", "e", "m", "s">>
KEY_items == <<"i", "t", "e", "m", "s">>
KEY_actions == <<"a", "c", "t", "i", "o", "n", "s">>
KEY_tasks == <<"t", "a", "s", "k", "s">>

\* dict.get(key): the value, None when the key is absent
dict_get(d, key) ==
    LET at == {i \in 1..Len(d.v) : d.v[i][1] = key}
    IN  IF at = {} THEN JNull ELSE d.v[Max(at)][2]

\* a or b
py_or(a, b) == IF truthy(a) THEN a ELSE b

\* the chain of lines 146-153 with "is not None" in place of the truth test:
\* the first key that is present is used, empty or not
select_items_first_present(result) ==
    LET present(a, b) == IF a # JNull THEN a ELSE b
    IN  present(dict_get(result, KEY_action_items),
        present(dict_get(result, KEY_actionItems),
        present(dict_get(result, KEY_items),
        present(dict_get(result, KEY_actions),
        present(dict_get(result, KEY_tasks), JList(<<>>))))))

\* lines 146-153
select_items(result) ==
    py_or(dict_get(result, KEY_action_items),
    py_or(dict_get(result, KEY_actionItems),
    py_or(dict_get(result, KEY_items),
    py_or(dict_get(result, KEY_actions),
    py_or(dict_get(result, KEY_tasks), JList(<<>>))))))

\* whether "for item in x" can start: iter(x) raises TypeError otherwise
iterable(x) == x.t \in {"list", "str", "dict"}

\* what "for item in x" yields: the members of a list, the characters of a str,
\* the keys of a dict
iterate(x) ==
    CASE x.t = "list" -> x.v
      [] x.t = "str" -> [i \in 1..Len(x.v) |-> JStr(<<x.v[i]>>)]
      [] x.t = "dict" -> [i \in 1..Len(x.v) |-> JStr(x.v[i][1])]

\* [str(item) for item in items] of lines 143 and 154 without the "if item"
RECURSIVE coerce_items_unfiltered(_)
coerce_items_unfiltered(items) ==
    IF items = <<>> THEN <<>>
    ELSE <<py_str(Head(items))>> \o coerce_items_unfiltered(Tail(items))

\* [str(item) for item in items if item] of lines 143 and 154
RECURSIVE coerce_items(_)
coerce_items(items) ==
    IF items = <<>> THEN <<>>
    ELSE IF truthy(Head(items))
         THEN <<py_str(Head(items))>> \o coerce_items(Tail(items))
         ELSE coerce_items(Tail(items))

(* What chat() did: it raised (the service is unavailable), it answered      *)
(* with no content (response.message.content is None), with content that is *)
(* not JSON, or with content that json.loads parses to the document value.  *)
Raises == [kind |-> "raises", value |-> JNull]
NoContent == [kind |-> "no_content", value |-> JNull]
NotJson == [kind |-> "not_json", value |-> JNull]
Json(doc) == [kind |-> "json", value |-> doc]
NotCalled == [kind |-> "none", value |-> JNull]

\* lines 126-156, the body of the try: the exception it ends with ("none" when
\* it returns) and the value it returns
llm_try(outcome) ==
    CASE outcome.kind = "raises" -> [exc |-> "ConnectionError", value |-> <<>>]
      [] outcome.kind = "no_content" -> [exc |-> "AttributeError", value |-> <<>>]
      [] outcome.kind = "not_json" -> [exc |-> "JSONDecodeError", value |-> <<>>]
      [] OTHER ->
            LET result == outcome.value
            IN  IF result.t = "list"
                THEN [exc |-> "none", value |-> coerce_items(result.v)]
                ELSE IF result.t = "dict"
                THEN LET items == select_items(result)
                     IN  IF iterable(items)
                         THEN [exc |-> "none", value |-> coerce_items(iterate(items))]
                         ELSE [exc |-> "TypeError", value |-> <<>>]
                ELSE [exc |-> "none", value |-> <<>>]

\* the handlers with only "except json.JSONDecodeError": any other exception
\* reaches the caller
llm_except_json_only(r) ==
    IF r.exc = "none" THEN [raised |-> FALSE, value |-> r.value, log |-> <<>>]
    ELSE IF r.exc = "JSONDecodeError" THEN [raised |-> FALSE, value |-> <<>>, log |-> <<>>]
    ELSE [raised |-> TRUE, value |-> <<>>, log |-> <<>>]

\* lines 158-164, the handlers: what the caller gets and what is printed
llm_except(r) ==
    IF r.exc = "none" THEN [raised |-> FALSE, value |-> r.value, log |-> <<>>]
    ELSE IF r.exc = "JSONDecodeError" THEN [raised |-> FALSE, value |-> <<>>, log |-> <<>>]
    ELSE [raised |-> FALSE, value |-> <<>>, log |-> <<r.exc>>]

\* extract_action_items_llm without the test of lines 105-106
extract_action_items_llm_unguarded(t, outcome) ==
    LET r == llm_except(llm_try(outcome))
    IN  [called |-> TRUE, raised |-> r.raised, value |-> r.value, log |-> r.log]

\* extract_action_items_llm(t), outcome being what chat() does if it is called
extract_action_items_llm(t, outcome) ==
    IF t = <<>> \/ strip(t) = <<>>
    THEN [called |-> FALSE, raised |-> FALSE, value |-> <<>>, log |-> <<>>]
    ELSE LET r == llm_except(llm_try(outcome))
         IN  [called |-> TRUE, raised |-> r.raised, value |-> r.value, log |-> r.log]

-----------------------------------------------------------------------------
(* db.py: the storage layer. A table is the sequence of its rows in rowid   *)
(* order; AUTOINCREMENT gives a new row the id after the table's sequence.  *)
(* The column created_at (DEFAULT datetime('now')) is written by SQLite and *)
(* only echoed by the responses: no handler reads it, and the rows of the   *)
(* model leave it out.                                                      *)

\* SQL NULL / Python None for an id (ids are positive)
None == 0

\* insert_note on a table whose id does not advance the sequence
insert_note_no_autoincrement(rows, seq, content) ==
    [rows |-> Append(rows, [id |-> seq + 1, content |-> content]),
     seq |-> seq,
     lastrowid |-> seq + 1]

\* insert_note(content): the table, its sequence and cursor.lastrowid
insert_note(rows, seq, content) ==
    [rows |-> Append(rows, [id |-> seq + 1, content |-> content]),
     seq |-> seq + 1,
     lastrowid |-> seq + 1]

\* get_note(note_id): the rows fetchone chooses from (none: it returns None)
get_note(rows, note_id) == SelectSeq(rows, LAMBDA r : r.id = note_id)

\* ORDER BY id DESC of rows kept in ascending id order
order_by_id_desc(rows) == [i \in 1..Len(rows) |-> rows[Len(rows) + 1 - i]]

\* list_notes()
list_notes(rows) == order_by_id_desc(rows)

\* insert_action_items where the note_id argument is not written to the rows
insert_action_items_unlinked(rows, seq, items, note_id) ==
    [rows |-> rows \o [i \in 1..Len(items) |->
                          [id |-> seq + i, note_id |-> None, text |-> items[i],
                           done |-> 0]],
     seq |-> seq + Len(items),
     ids |-> [i \in 1..Len(items) |-> seq + i]]

\* insert_action_items(items, note_id): the table, its sequence and the ids
RECURSIVE insert_action_items(_, _, _, _)
insert_action_items(rows, seq, items, note_id) ==
    IF items = <<>> THEN [rows |-> rows, seq |-> seq, ids |-> <<>>]
    ELSE LET row == [id |-> seq + 1, note_id |-> note_id, text |-> Head(items),
                     done |-> 0]
             rest == insert_action_items(Append(rows, row), seq + 1, Tail(items),
                                         note_id)
         IN  [rows |-> rest.rows, seq |-> rest.seq, ids |-> <<seq + 1>> \o rest.ids]

\* list_action_items(note_id)
list_action_items(rows, note_id) ==
    IF note_id = None THEN order_by_id_desc(rows)
    ELSE order_by_id_desc(SelectSeq(rows, LAMBDA r : r.note_id = note_id))

\* mark_action_item_done where the UPDATE has no WHERE clause
mark_action_item_done_all_rows(rows, action_item_id, done) ==
    [rows |-> [i \in 1..Len(rows) |-> [rows[i] EXCEPT !.done = IF done THEN 1 ELSE 0]],
     result |-> Cardinality({i \in 1..Len(rows) : rows[i].id = action_item_id}) > 0]

\* mark_action_item_done where the UPDATE's rowcount is not looked at
mark_action_item_done_always_true(rows, action_item_id, done) ==
    [rows |-> [i \in 1..Len(rows) |->
                  IF rows[i].id = action_item_id
                  THEN [rows[i] EXCEPT !.done = IF done THEN 1 ELSE 0]
                  ELSE rows[i]],
     result |-> TRUE]

\* mark_action_item_done(action_item_id, done): the table and the result
mark_action_item_done(rows, action_item_id, done) ==
    [rows |-> [i \in 1..Len(rows) |->
                  IF rows[i].id = action_item_id
                  THEN [rows[i] EXCEPT !.done = IF done THEN 1 ELSE 0]
                  ELSE rows[i]],
     result |-> Cardinality({i \in 1..Len(rows) : rows[i].id = action_item_id}) > 0]

-----------------------------------------------------------------------------
(* routers/notes.py, routers/action_items.py: the endpoints. A response is  *)
(* [op, request, status, body].                                             *)

\* request bodies: texts for NoteCreate.content and ExtractRequest.text
ApiTexts ==
    { <<>>, <<" ">>, <<"-", " ", "a">>, <<"-", " ", "a", "\n", "-", " ", "b", " ">> }

\* extract_action_items on every text a request can carry, as extract calls it
\* on the stripped text: the function is pure, its value per text is computed
\* once
ApiExtracted == [t \in {strip(x) : x \in ApiTexts} |-> extract_action_items(t)]

\* Field(..., min_length=1) of NoteCreate and ExtractRequest
min_length_ok(str) == Len(str) >= 1

\* a request whose body fails validation never reaches its handler
Unprocessable(op, request) ==
    /\ response' = [op |-> op, request |-> request, status |-> 422, body |-> <<>>]
    /\ UNCHANGED <<notes, action_items, note_seq, item_seq, h_vars, llm_vars>>

\* POST /notes
create_note ==
    \E content \in ApiTexts :
        LET request == [content |-> content]
        IN  IF ~min_length_ok(content) THEN Unprocessable("create_note", request)
            ELSE /\ Len(notes) < MaxNotes
                 /\ LET ins == insert_note(notes, note_seq, strip(content))
                        note == get_note(ins.rows, ins.lastrowid)[1]
                    IN  /\ notes' = ins.rows
                        /\ note_seq' = ins.seq
                        /\ response' = [op |-> "create_note", request |-> request,
                                        status |-> 200, body |-> note]
                 /\ UNCHANGED <<action_items, item_seq, h_vars, llm_vars>>

\* GET /notes
list_all_notes ==
    /\ response' = [op |-> "list_all_notes", request |-> <<>>, status |-> 200,
                    body |-> [notes |-> list_notes(notes)]]
    /\ UNCHANGED <<notes, action_items, note_seq, item_seq, h_vars, llm_vars>>

\* GET /notes/{note_id}
get_single_note ==
    \E note_id \in 1..(MaxNotes + 1) :
        LET row == get_note(notes, note_id)
            request == [note_id |-> note_id]
        IN  /\ response' =
                   IF row = <<>>
                   THEN [op |-> "get_single_note", request |-> request, status |-> 404,
                         body |-> [detail |-> <<"Note with id", note_id, "not found">>]]
                   ELSE [op |-> "get_single_note", request |-> request, status |-> 200,
                         body |-> row[1]]
            /\ UNCHANGED <<notes, action_items, note_seq, item_seq, h_vars, llm_vars>>

\* POST /action-items/extract
extract ==
    \E payload_text \in ApiTexts, save_note \in BOOLEAN :
        LET request == [text |-> payload_text, save_note |-> save_note]
        IN  IF ~min_length_ok(payload_text) THEN Unprocessable("extract", request)
            ELSE LET t == strip(payload_text)
                     ins == IF save_note THEN insert_note(notes, note_seq, t)
                            ELSE [rows |-> notes, seq |-> note_seq, lastrowid |-> None]
                     note_id == ins.lastrowid
                     items == ApiExtracted[t]
                     put == insert_action_items(action_items, item_seq, items, note_id)
                 IN  /\ save_note => Len(notes) < MaxNotes
                     /\ Len(action_items) + Len(items) <= MaxItems
                     /\ notes' = ins.rows
                     /\ note_seq' = ins.seq
                     /\ action_items' = put.rows
                     /\ item_seq' = put.seq
                     /\ response' =
                            [op |-> "extract", request |-> request, status |-> 200,
                             body |-> [note_id |-> note_id,
                                       items |-> [i \in 1..Min({Len(put.ids), Len(items)}) |->
                                                     [id |-> put.ids[i], text |-> items[i]]]]]
                     /\ UNCHANGED <<h_vars, llm_vars>>

\* GET /action-items
list_all ==
    \E note_id \in 0..MaxNotes :
        /\ response' =
               [op |-> "list_all", request |-> [note_id |-> note_id], status |-> 200,
                body |-> [i \in 1..Len(list_action_items(action_items, note_id)) |->
                             LET row == list_action_items(action_items, note_id)[i]
                             IN  [id |-> row.id, note_id |-> row.note_id, text |-> row.text,
                                  done |-> row.done # 0]]]
        /\ UNCHANGED <<notes, action_items, note_seq, item_seq, h_vars, llm_vars>>

\* POST /action-items/{action_item_id}/done
mark_done ==
    \E action_item_id \in 1..(MaxItems + 1), done \in BOOLEAN :
        LET request == [action_item_id |-> action_item_id, done |-> done]
            upd == mark_action_item_done(action_items, action_item_id, done)
        IN  /\ action_items' = upd.rows
            /\ response' =
                   IF ~upd.result
                   THEN [op |-> "mark_done", request |-> request, status |-> 404,
                         body |-> [detail |-> <<"Action item with id", action_item_id,
                                               "not found">>]]
                   ELSE [op |-> "mark_done", request |-> request, status |-> 200,
                         body |-> [id |-> action_item_id, done |-> done]]
            /\ UNCHANGED <<notes, note_seq, item_seq, h_vars, llm_vars>>

ApiNext ==
    \/ create_note
    \/ list_all_notes
    \/ get_single_note
    \/ extract
    \/ list_all
    \/ mark_done

-----------------------------------------------------------------------------
(* Inputs of the heuristic extractor: every concatenation of at most        *)
(* MaxFrags fragments of structured notes, and of at most MaxProseFrags     *)
(* fragments of prose                                                       *)

RECURSIVE Flatten(_)
Flatten(ss) == IF ss = <<>> THEN <<>> ELSE Head(ss) \o Flatten(Tail(ss))

TextsOver(Frags, n) ==
    UNION { {Flatten(fs) : fs \in [1..k -> Frags]} : k \in 0..n }

NoteFrags ==
    { <<"\n", "-", " ">>, CheckboxEmpty, CheckboxTodo, <<" ">>, <<"a">>, <<"A">> }

ProseFrags ==
    { <<"F", "i", "x">>, <<"f", "i", "x">>, <<"i", "t">>, <<".", " ">>,
      <<"'">>, <<"\n">> }

\* the input of the order example (test_extract_bullets_and_checkboxes)
OrderExample ==
    <<"-", " ", "[", " ", "]", " ", "S", "e", "t", " ", "u", "p", " ", "d",
      "a", "t", "a", "b", "a", "s", "e", "\n", "*", " ", "i", "m", "p",
      "l", "e", "m", "e", "n", "t", " ", "A", "P", "I", " ", "e", "x", "t",
      "r", "a", "c", "t", " ", "e", "n", "d", "p", "o", "i", "n", "t",
      "\n", "1", ".", " ", "W", "r", "i", "t", "e", " ", "t", "e", "s",
      "t", "s", "\n", "S", "o", "m", "e", " ", "n", "a", "r", "r", "a",
      "t", "i", "v", "e", " ", "s", "e", "n", "t", "e", "n", "c", "e", ".">>

OrderExampleItems ==
    << <<"S", "e", "t", " ", "u", "p", " ", "d", "a", "t", "a", "b", "a", "s",
         "e">>,
       <<"i", "m", "p", "l", "e", "m", "e", "n", "t", " ", "A", "P", "I", " ",
         "e", "x", "t", "r", "a", "c", "t", " ", "e", "n", "d", "p", "o", "i",
         "n", "t">>,
       <<"W", "r", "i", "t", "e", " ", "t", "e", "s", "t", "s">> >>

\* the input of the fallback example
FallbackExample ==
    <<"F", "i", "x", " ", "t", "h", "e", " ", "b", "u", "g", " ", "i", "n",
      " ", "t", "h", "e", " ", "p", "a", "r", "s", "e", "r", ".", " ", "I",
      "t", " ", "w", "a", "s", " ", "r", "a", "i", "n", "i", "n", "g", " ",
      "o", "u", "t", "s", "i", "d", "e", ".">>

FallbackExampleItems ==
    << <<"F", "i", "x", " ", "t", "h", "e", " ", "b", "u", "g", " ", "i", "n",
         " ", "t", "h", "e", " ", "p", "a", "r", "s", "e", "r", ".">> >>

\* an action line with both checkbox tokens after its bullet marker
CheckboxExample ==
    <<"-", " ", "[", " ", "]", " ", "[", "t", "o", "d", "o", "]", " ", "x">>

NoteTexts == TextsOver(NoteFrags, MaxFrags) \cup {OrderExample, CheckboxExample}
\* fragments of notes that mix action lines and prose
MixedFrags ==
    { <<"-", " ", "a">>, <<"F", "i", "x">>, <<" ", "i", "t">>, <<".", " ">>, <<"\n">> }

MixedTexts == TextsOver(MixedFrags, MaxProseFrags)

ProseTexts == TextsOver(ProseFrags, MaxProseFrags) \cup {FallbackExample, OrderExample}

-----------------------------------------------------------------------------
(* Inputs of the LLM-backed extractor: the texts of test_empty_input and a  *)
(* text with content, and every answer of the model within the bounds      *)

LLMTexts == { <<>>, <<" ", " ", " ">>, <<"\n", "\n">>, <<"a">> }

\* the members of a list the model answers with
ListMembers ==
    { JNull, JBool(TRUE), JNum(0), JNum(5), JStr(<<>>), JStr(<<"a">>),
      JStr(<<"A">>), JStr(<<" ">>), JList(<<JStr(<<"a">>)>>) }

ListsOver(Members, n) == UNION { [1..k -> Members] : k \in 0..n }

KEY_other == <<"n", "o", "t", "e">>

DictKeys ==
    <<KEY_action_items, KEY_actionItems, KEY_items, KEY_actions, KEY_tasks, KEY_other>>

\* the values of an object the model answers with
DictValues ==
    { JNull, JList(<<>>), JList(<<JStr(<<"a">>), JStr(<<>>), JStr(<<"b">>)>>),
      JList(<<JNum(5), JStr(<<"c">>)>>), JStr(<<"a", "b">>), JNum(5),
      JDict(<< <<KEY_other, JStr(<<"a">>)>> >>) }

\* the objects with at most n of the keys, each with one of the values
DictsOver(Values, n) ==
    UNION { { [i \in 1..Cardinality(K) |-> <<DictKeys[Ascending(K)[i]], f[Ascending(K)[i]]>>]
                : f \in [K -> Values] }
            : K \in {K \in SUBSET (1..Len(DictKeys)) : Cardinality(K) <= n} }

JsonDocuments ==
    {JNull, JBool(TRUE), JNum(5), JStr(<<"a">>)}
    \cup {JList(l) : l \in ListsOver(ListMembers, MaxListLen)}
    \cup {JDict(d) : d \in DictsOver(DictValues, MaxDictKeys)}

ChatOutcomes == {Raises, NoContent, NotJson} \cup {Json(doc) : doc \in JsonDocuments}

-----------------------------------------------------------------------------
(* The call of extract_action_items *)

\* the other components, before any call
LLMIdle ==
    /\ llm_text = <<>>
    /\ llm_pc = "ready"
    /\ chat_reply = NotCalled
    /\ chat_calls = 0
    /\ llm_result = [raised |-> FALSE, value |-> <<>>]
    /\ llm_log = <<>>

ApiIdle ==
    /\ notes = <<>>
    /\ action_items = <<>>
    /\ note_seq = 0
    /\ item_seq = 0
    /\ response = [op |-> "none", request |-> <<>>, status |-> 0, body |-> <<>>]

HInit(Texts) ==
    /\ text \in Texts
    /\ h_pc = "ready"
    /\ h_items = <<>>

Extract ==
    /\ h_pc = "ready"
    /\ h_items' = extract_action_items(text)
    /\ h_pc' = "done"
    /\ UNCHANGED <<text, llm_vars, api_vars>>

HNext == Extract

\* the heuristic extractor on structured notes
InitHeuristic == HInit(NoteTexts) /\ LLMIdle /\ ApiIdle

SpecHeuristic == InitHeuristic /\ [][HNext]_vars

\* the heuristic extractor on prose
InitFallback == HInit(ProseTexts) /\ LLMIdle /\ ApiIdle

SpecFallback == InitFallback /\ [][HNext]_vars

\* the heuristic extractor on notes that mix action lines and prose
InitMixed == HInit(MixedTexts) /\ LLMIdle /\ ApiIdle

SpecMixed == InitMixed /\ [][HNext]_vars

-----------------------------------------------------------------------------
(* The call of extract_action_items_llm *)

HIdle ==
    /\ text = <<>>
    /\ h_pc = "ready"
    /\ h_items = <<>>

LLMInit ==
    /\ llm_text \in LLMTexts
    /\ llm_pc = "ready"
    /\ chat_reply = NotCalled
    /\ chat_calls = 0
    /\ llm_result = [raised |-> FALSE, value |-> <<>>]
    /\ llm_log = <<>>

\* one call; chat(), if the call reaches it, does any of ChatOutcomes
ExtractLLM ==
    /\ llm_pc = "ready"
    /\ \E outcome \in ChatOutcomes :
          LET r == extract_action_items_llm(llm_text, outcome)
          IN  /\ chat_reply' = IF r.called THEN outcome ELSE NotCalled
              /\ chat_calls' = IF r.called THEN chat_calls + 1 ELSE chat_calls
              /\ llm_result' = [raised |-> r.raised, value |-> r.value]
              /\ llm_log' = llm_log \o r.log
    /\ llm_pc' = "done"
    /\ UNCHANGED <<llm_text, h_vars, api_vars>>

LLMNext == ExtractLLM

InitLLM == HIdle /\ LLMInit /\ ApiIdle

\* the LLM-backed extractor
SpecLLM == InitLLM /\ [][LLMNext]_vars

\* the database after init_db on a new file, before any request
InitApi == HIdle /\ LLMIdle /\ ApiIdle

\* the API over the storage layer
SpecApi == InitApi /\ [][ApiNext]_vars

-----------------------------------------------------------------------------
(* Properties of extract_action_items *)

\* of a list, the entries whose lowercased text no earlier entry has
FirstOccurrences(seq) ==
    LET first == {k \in 1..Len(seq) :
                     \A j \in 1..(k - 1) : lower(seq[j]) # lower(seq[k])}
        order == Ascending(first)
    IN  [n \in 1..Len(order) |-> seq[order[n]]]

\* the indices of the action lines of t
ActionLineIndices(t) ==
    LET lines == splitlines(t)
    IN  {k \in 1..Len(lines) : _is_action_line(strip(lines[k]))}

\* the cleaned action lines of t, in source order
CleanedActionLines(t) ==
    LET lines == splitlines(t)
        order == Ascending(ActionLineIndices(t))
    IN  [n \in 1..Len(order) |-> clean_action_line(strip(lines[order[n]]))]

NoCaseDuplicates(items) ==
    \A i, j \in 1..Len(items) : lower(items[i]) = lower(items[j]) => i = j

\* C1: for every input text, no two items of the list extract_action_items
\* returns are equal when lowercased
C1_NoCaseInsensitiveDuplicates ==
    h_pc = "done" => NoCaseDuplicates(h_items)

\* two action lines that differ only in case, of which the first is returned
C1_Witness ==
    /\ h_pc = "done"
    /\ text = <<"\n", "-", " ", "a", "\n", "-", " ", "A">>
    /\ h_items = << <<"a">> >>

\* C2: for every input text, every item extract_action_items returns is
\* non-empty after trimming whitespace, also for an action line that is only a
\* bullet marker and/or a checkbox token
C2_ItemsNonEmpty ==
    h_pc = "done" => \A i \in 1..Len(h_items) : strip(h_items[i]) # <<>>

\* C3: when at least one line is an action line, extract_action_items returns
\* exactly the cleaned action lines in source order, keeping for each
\* lowercased text only its first occurrence and excluding every non-action
\* line; the order example yields exactly its three items
C3_CleanedActionLinesInOrder ==
    h_pc = "done" =>
        /\ ActionLineIndices(text) # {} =>
               h_items = FirstOccurrences(CleanedActionLines(text))
        /\ text = OrderExample => h_items = OrderExampleItems

\* the order example has been extracted: three action lines and one narrative line
C3_Witness ==
    /\ h_pc = "done"
    /\ text = OrderExample
    /\ Cardinality(ActionLineIndices(text)) = 3
    /\ Len(splitlines(text)) = 4
    /\ h_items = OrderExampleItems

\* the sentences of t: the stripped text cut at every run of whitespace that
\* directly follows '.', '!' or '?'
Sentences(t) ==
    LET T == strip(t)
        cuts == {i \in 2..Len(T) : T[i] \in Whitespace /\ T[i - 1] \in SentenceEnd}
        starts == Ascending({1} \cup {SkipWhile(T, i, Whitespace) : i \in cuts})
        stop(a) == Min({i \in cuts : i > a} \cup {Len(T) + 1}) - 1
    IN  [n \in 1..Len(starts) |-> strip(SubSeq(T, starts[n], stop(starts[n])))]

\* the first maximal run of letters and apostrophes of s is, lowercased, one of
\* the imperative starters
StartsImperative(s) ==
    \E a \in 1..Len(s) : \E b \in a..Len(s) :
        /\ \A k \in 1..(a - 1) : s[k] \notin WordChars
        /\ \A k \in a..b : s[k] \in WordChars
        /\ b = Len(s) \/ s[b + 1] \notin WordChars
        /\ lower(SubSeq(s, a, b)) \in imperative_starters

IsImperativeSentence(s) == s # <<>> /\ StartsImperative(s)

\* the non-blank sentences of t that start with an imperative starter, in order
ImperativeSentences(t) == SelectSeq(Sentences(t), IsImperativeSentence)

\* C4 as stated: when no line of the input is an action line,
\* extract_action_items returns exactly the trimmed sentences whose first
\* alphabetic word is one of the twelve imperative starters, verbatim and in
\* order
C4_FallbackAllSentences ==
    (h_pc = "done" /\ ActionLineIndices(text) = {}) =>
        h_items = ImperativeSentences(text)

\* C4 as amended: when no line of the input is an action line,
\* extract_action_items returns the trimmed sentences whose first word (the
\* first run of letters and apostrophes) is, case-insensitively, one of the
\* twelve imperative starters, verbatim and in order, keeping for each
\* lowercased sentence only its first occurrence; the fallback example yields
\* exactly its first sentence
C4_FallbackFirstOccurrences ==
    /\ Cardinality(imperative_starters) = 12
    /\ h_pc = "done" =>
          /\ ActionLineIndices(text) = {} =>
                 h_items = FirstOccurrences(ImperativeSentences(text))
          /\ text = FallbackExample => h_items = FallbackExampleItems

\* two imperative sentences that differ only in case: the first one is returned
C4_Witness ==
    /\ h_pc = "done"
    /\ text = <<"F", "i", "x", ".", " ", "f", "i", "x", ".", " ">>
    /\ ActionLineIndices(text) = {}
    /\ Len(ImperativeSentences(text)) = 2
    /\ h_items = << <<"F", "i", "x", ".">> >>

-----------------------------------------------------------------------------
(* Properties of extract_action_items_llm *)

\* C5: extract_action_items_llm called with an empty or all-whitespace text
\* returns the empty list, and chat is never invoked during that call
C5_BlankTextSkipsChat ==
    (llm_pc = "done" /\ \A i \in 1..Len(llm_text) : llm_text[i] \in Whitespace) =>
        /\ llm_result = [raised |-> FALSE, value |-> <<>>]
        /\ chat_calls = 0
        /\ chat_reply = NotCalled

\* the call with the text "   " has returned
C5_Witness ==
    /\ llm_pc = "done"
    /\ llm_text = <<" ", " ", " ">>
    /\ llm_result.value = <<>>
    /\ chat_calls = 0

IsStr(x) == x \in Seq(STRING)

\* None, False, 0 and the empty str, list and dict
Falsy(x) == x \in {JNull, JBool(FALSE), JNum(0), JStr(<<>>), JList(<<>>), JDict(<<>>)}

IsTruthy(x) == ~Falsy(x)

\* the value a mapping is read at: that of the first of the five keys, in
\* priority order, that is present with a truthy (non-empty) value, and the
\* empty list when there is none
SelectedValue(d) ==
    LET valueAt(k) == LET at == {i \in 1..Len(d.v) : d.v[i][1] = DictKeys[k]}
                      IN  IF at = {} THEN JNull ELSE d.v[Max(at)][2]
        usable == {k \in 1..5 : IsTruthy(valueAt(k))}
    IN  IF usable = {} THEN JList(<<>>) ELSE valueAt(Min(usable))

\* the answers the call cannot turn into items: chat raised, the content is
\* missing or is not JSON, or the value selected from a mapping cannot be
\* iterated
IsFailure(reply) ==
    \/ reply.kind \in {"raises", "no_content", "not_json"}
    \/ /\ reply.kind = "json"
       /\ reply.value.t = "dict"
       /\ SelectedValue(reply.value).t \in {"num", "bool"}

\* C6: extract_action_items_llm never raises to its caller: whatever chat
\* does (it fails, the content is missing, is not JSON, or is JSON of any
\* shape) the call returns a list of strings, and the list is empty on every
\* failure
C6_NeverRaises ==
    llm_pc = "done" =>
        /\ ~llm_result.raised
        /\ \A i \in 1..Len(llm_result.value) : IsStr(llm_result.value[i])
        /\ IsFailure(chat_reply) => llm_result.value = <<>>

\* chat raised: the call returned the empty list and printed the error
C6_Witness ==
    /\ llm_pc = "done"
    /\ chat_reply = Raises
    /\ chat_calls = 1
    /\ ~llm_result.raised
    /\ llm_result.value = <<>>
    /\ llm_log = <<"ConnectionError">>

\* the members of l that are not falsy, in order, each as str() gives it
CoercedMembers(l) ==
    LET kept == SelectSeq(l, IsTruthy)
    IN  [i \in 1..Len(kept) |-> py_str(kept[i])]

\* the answer parses to a sequence: the document is one, or it is a mapping
\* and the value selected from it is one
ParsesToSequence(reply) ==
    /\ reply.kind = "json"
    /\ \/ reply.value.t = "list"
       \/ reply.value.t = "dict" /\ SelectedValue(reply.value).t = "list"

\* that sequence
ParsedSequence(reply) ==
    IF reply.value.t = "list" THEN reply.value.v ELSE SelectedValue(reply.value).v

\* C7: when the model output parses to a sequence (directly or as the selected
\* mapping value), extract_action_items_llm returns its elements in order, each
\* coerced to a string, with every falsy element dropped and nothing else added
\* or removed
C7_SequenceCoercedInOrder ==
    (llm_pc = "done" /\ ParsesToSequence(chat_reply)) =>
        /\ llm_result.value = CoercedMembers(ParsedSequence(chat_reply))
        /\ \A i \in 1..Len(llm_result.value) : IsStr(llm_result.value[i])

\* the answer {"action_items": ["a", "", "b"]} has given ["a", "b"]
C7_Witness ==
    /\ llm_pc = "done"
    /\ chat_reply = Json(JDict(<< <<KEY_action_items,
                                   JList(<<JStr(<<"a">>), JStr(<<>>), JStr(<<"b">>)>>)>> >>))
    /\ llm_result.value = << <<"a">>, <<"b">> >>

\* what iterating x yields when x is the value selected from a mapping: its
\* members, the characters of a string, the keys of a mapping, and nothing for
\* a value that cannot be iterated
MembersOf(x) ==
    CASE x.t = "list" -> x.v
      [] x.t = "str" -> [i \in 1..Len(x.v) |-> JStr(<<x.v[i]>>)]
      [] x.t = "dict" -> [i \in 1..Len(x.v) |-> JStr(x.v[i][1])]
      [] OTHER -> <<>>

\* C8: when the model output parses to a keyed mapping, the value used is that
\* of the first key, in the order action_items, actionItems, items, actions,
\* tasks, that is present with a non-empty value (a present but empty
\* higher-priority key is skipped); if none of the keys is present, or the
\* parsed value is neither a sequence nor a mapping, the result is empty
C8_MappingKeyPriority ==
    (llm_pc = "done" /\ chat_reply.kind = "json") =>
        /\ chat_reply.value.t = "dict" =>
              /\ llm_result.value = CoercedMembers(MembersOf(SelectedValue(chat_reply.value)))
              /\ (\A i \in 1..Len(chat_reply.value.v) :
                      chat_reply.value.v[i][1] \notin {DictKeys[k] : k \in 1..5})
                  => llm_result.value = <<>>
        /\ chat_reply.value.t \notin {"list", "dict"} => llm_result.value = <<>>

\* the answer {"action_items": [], "tasks": [5, "c"]}: the empty action_items
\* is skipped and tasks is used
C8_Witness ==
    /\ llm_pc = "done"
    /\ chat_reply = Json(JDict(<< <<KEY_action_items, JList(<<>>)>>,
                                  <<KEY_tasks, JList(<<JNum(5), JStr(<<"c">>)>>)>> >>))
    /\ llm_result.value = << <<"5">>, <<"c">> >>

\* C9: on the model path too, the returned list has no two case-insensitively
\* equal items and no item that is empty after trimming
C9_ModelPathDedupNonBlank ==
    llm_pc = "done" =>
        /\ NoCaseDuplicates(llm_result.value)
        /\ \A i \in 1..Len(llm_result.value) : strip(llm_result.value[i]) # <<>>

-----------------------------------------------------------------------------
(* Properties of the API *)

StoredItemIds == {action_items[i].id : i \in 1..Len(action_items)}

\* C10: marking an action item done with an id that is not stored reports not
\* found (mark_action_item_done returns False, the endpoint answers 404) and
\* leaves every stored note and action item unchanged; with a stored id it
\* returns True and the endpoint reports the requested done value
C10_MarkDoneNotFound ==
    [][response'.op = "mark_done" =>
          LET id == response'.request.action_item_id
              done == response'.request.done
          IN  IF id \notin StoredItemIds
              THEN /\ ~mark_action_item_done(action_items, id, done).result
                   /\ response'.status = 404
                   /\ notes' = notes
                   /\ action_items' = action_items
              ELSE /\ mark_action_item_done(action_items, id, done).result
                   /\ response'.status = 200
                   /\ response'.body = [id |-> id, done |-> done]
                   /\ \A i \in 1..Len(action_items') :
                          action_items'[i].id = id =>
                              action_items'[i].done = IF done THEN 1 ELSE 0]_vars

\* a request for an id that is not stored, while other items are, was answered 404
C10_Witness ==
    /\ response.op = "mark_done"
    /\ response.status = 404
    /\ action_items # <<>>
    /\ response.request.action_item_id \notin StoredItemIds

StoredNoteIds == {notes[i].id : i \in 1..Len(notes)}

C12_NoteContentNonEmpty ==
    \A i \in 1..Len(notes) : notes[i].content # <<>>

\* C15: after any sequence of API operations, every stored action item whose
\* note_id is set refers to a stored note, and the note ids and the action-item
\* ids are unique positive integers
C15_ReferentialIntegrity ==
    /\ \A i \in 1..Len(action_items) :
           action_items[i].note_id # None => action_items[i].note_id \in StoredNoteIds
    /\ \A i \in 1..Len(notes) :
           /\ notes[i].id \in Nat \ {0}
           /\ \A j \in 1..Len(notes) : notes[j].id = notes[i].id => j = i
    /\ \A i \in 1..Len(action_items) :
           /\ action_items[i].id \in Nat \ {0}
           /\ \A j \in 1..Len(action_items) :
                  action_items[j].id = action_items[i].id => j = i

\* two notes are stored, with an item linked to the second and an unlinked item
C15_Witness ==
    /\ Len(notes) = 2
    /\ Len(action_items) = 2
    /\ \E i \in 1..Len(action_items) : action_items[i].note_id = notes[2].id
    /\ \E i \in 1..Len(action_items) : action_items[i].note_id = None

\* C16: marking a stored action item changes only the done flag of that one
\* item: its text, note_id and id, every other action item and every note are
\* left unchanged, and repeating the same call leaves the state unchanged
C16_MarkDoneFrame ==
    [][(response'.op = "mark_done" /\ response'.status = 200) =>
          LET id == response'.request.action_item_id
              done == response'.request.done
          IN  /\ id \in StoredItemIds
              /\ notes' = notes
              /\ note_seq' = note_seq
              /\ item_seq' = item_seq
              /\ Len(action_items') = Len(action_items)
              /\ \A i \in 1..Len(action_items) :
                     action_items'[i] =
                         IF action_items[i].id = id
                         THEN [id |-> action_items[i].id,
                               note_id |-> action_items[i].note_id,
                               text |-> action_items[i].text,
                               done |-> IF done THEN 1 ELSE 0]
                         ELSE action_items[i]
              /\ mark_action_item_done(action_items', id, done).rows = action_items'
              /\ mark_action_item_done(action_items', id, done).result]_vars

\* the second of two stored items has been marked done, the first is not
C16_Witness ==
    /\ response.op = "mark_done"
    /\ response.status = 200
    /\ response.request = [action_item_id |-> 2, done |-> TRUE]
    /\ Len(action_items) = 2
    /\ action_items[1].done = 0
    /\ action_items[2] = [id |-> 2, note_id |-> action_items[2].note_id,
                          text |-> <<"b">>, done |-> 1]

-----------------------------------------------------------------------------
(* Properties of the cleaning of an action line *)

\* an action line with its bullet marker stripped and at most a single leading
\* checkbox token, "[ ]" or "[todo]", removed
SingleTokenCleaned(line) ==
    LET c1 == strip(BULLET_PREFIX_PATTERN_sub(line))
    IN  IF startswith(c1, CheckboxEmpty) THEN strip(removeprefix(c1, CheckboxEmpty))
        ELSE strip(removeprefix(c1, CheckboxTodo))

\* C13: for each action line, after the bullet marker is stripped, at most a
\* single leading checkbox token ("[ ]" or "[todo]") is removed: the items are
\* the first occurrences of the action lines cleaned that way, so that
\* "- [ ] [todo] x" loses only its first token
C13_SingleCheckboxToken ==
    (h_pc = "done" /\ ActionLineIndices(text) # {}) =>
        LET lines == splitlines(text)
            order == Ascending(ActionLineIndices(text))
        IN  h_items = FirstOccurrences([n \in 1..Len(order) |->
                                           SingleTokenCleaned(strip(lines[order[n]]))])

-----------------------------------------------------------------------------
(* Properties of the fallback's trigger *)

\* the lines of t that are not action lines and are, trimmed, a sentence the
\* fallback would keep
ImperativeProseLines(t) ==
    LET lines == splitlines(t)
    IN  {k \in 1..Len(lines) :
            /\ k \notin ActionLineIndices(t)
            /\ \E n \in 1..Len(ImperativeSentences(t)) :
                   ImperativeSentences(t)[n] = strip(lines[k])}

\* C14: the sentence fallback runs only when the pass over the lines produced
\* no item: if any line is an action line, every returned item is a cleaned
\* action line, there are no more items than action lines, and no imperative
\* prose sentence of a non-action line is added
C14_FallbackOnlyWithoutActionLines ==
    (h_pc = "done" /\ ActionLineIndices(text) # {}) =>
        /\ \A i \in 1..Len(h_items) :
               \E n \in 1..Len(CleanedActionLines(text)) :
                   h_items[i] = CleanedActionLines(text)[n]
        /\ Len(h_items) <= Cardinality(ActionLineIndices(text))

\* a text with an action line and an imperative sentence on a line that is not
\* one: the sentence is not among the items
C14_Witness ==
    /\ h_pc = "done"
    /\ ActionLineIndices(text) # {}
    /\ ImperativeProseLines(text) # {}
    /\ h_items = << <<"a">> >>
    /\ \A k \in ImperativeProseLines(text) :
           \A i \in 1..Len(h_items) : h_items[i] # strip(splitlines(text)[k])

====
